---- MODULE Spec2Model ----
(***************************************************************************)
(* Model of deployment-manager/k8s-api-cli.go: four go-restful handlers    *)
(* (CreateDeployment, UpdateDeployment, ListDeployment, DeleteDeployment)  *)
(* that run concurrently, one goroutine per request, against a Kubernetes  *)
(* API server reached through the package-level clientset.                 *)
(*                                                                         *)
(* Strings the program inspects character by character (image, derived    *)
(* name, labels, namespace) are sequences of one-character strings.        *)
(* A handler is cut into one action per statement that touches shared      *)
(* state: a write to the package-level variable `deployment`, or a call    *)
(* to the API server.  The statements between two such points are local    *)
(* to the goroutine and belong to the action that precedes them.           *)
(***************************************************************************)
EXTENDS Integers, Sequences, FiniteSets, TLC

VARIABLES
    namespaces,   \* API server: the names of the Namespace resources
    store,        \* API server: the Deployment resources (a set of records)
    rev,          \* API server: the last resourceVersion handed out
    deployment,   \* package-level `var deployment *appsv1.Deployment`
    pc,           \* per request: the statement the handler is at
    in,           \* per request: DeploymentInfo / path parameters
    result,       \* per update request: the closure's `result`
    steps,        \* per update request: attempts RetryOnConflict has made
    resp,         \* per request: what has been written to restful.Response
    hist,         \* per request: record of the API calls made (observation)
    extWrites,    \* number of writes made by other clients of the API server
    deletedOK     \* keys whose Delete returned nil, not created again since

vars == <<namespaces, store, rev, deployment, pc, in, result, steps, resp,
          hist, extWrites, deletedOK>>

----------------------------------------------------------------------------
(* Bounds of the model *)

\* resourceVersions the API server hands out before the model stops writing
MaxRev == 6
\* length of the image strings the name derivation is applied to
MaxLen == 3
\* writes by clients other than this service (controllers, other callers)
MaxExtWrites == 5

----------------------------------------------------------------------------
(* Strings *)

Lower == {"a","b","c","d","e","f","g","h","i","j","k","l","m",
          "n","o","p","q","r","s","t","u","v","w","x","y","z"}
Upper == {"A","B","C","D","E","F","G","H","I","J","K","L","M",
          "N","O","P","Q","R","S","T","U","V","W","X","Y","Z"}
Digit == {"0","1","2","3","4","5","6","7","8","9"}

\* the complement of the class [^a-zA-Z0-9] of the pattern
Alnum == Lower \cup Upper \cup Digit

\* the longest prefix of s matched by [^a-zA-Z0-9]+ is dropped
RECURSIVE DropRun(_)
DropRun(s) ==
    IF s = <<>> THEN <<>>
    ELSE IF Head(s) \in Alnum THEN s
    ELSE DropRun(Tail(s))

\* reg.ReplaceAllString(value, ""): every leftmost-longest match is replaced
\* by the empty string, the text between matches is copied
RECURSIVE ReplaceAllString(_)
ReplaceAllString(s) ==
    IF s = <<>> THEN <<>>
    ELSE IF Head(s) \in Alnum
         THEN <<Head(s)>> \o ReplaceAllString(Tail(s))
         ELSE ReplaceAllString(DropRun(Tail(s)))

\* only the first match replaced
RECURSIVE ReplaceFirstString(_)
ReplaceFirstString(s) ==
    IF s = <<>> THEN <<>>
    ELSE IF Head(s) \in Alnum
         THEN <<Head(s)>> \o ReplaceFirstString(Tail(s))
         ELSE DropRun(Tail(s))

RemoveNonAlphanumericChars(value) == ReplaceAllString(value)

Nginx112 == <<"n","g","i","n","x",":","1",".","1","2">>   \* "nginx:1.12"
Nginx113 == <<"n","g","i","n","x",":","1",".","1","3">>   \* "nginx:1.13"
Nginx112b == <<"n","g","i","n","x","1",".","1","2">>      \* "nginx1.12"
Redis5 == <<"r","e","d","i","s",":","5">>                 \* "redis:5"
Demo == <<"d","e","m","o">>                               \* "demo"
Prod == <<"p","r","o","d">>                               \* "prod"
DemoDeployment == <<"d","e","m","o","-","d","e","p","l","o","y","m","e","n","t">>
Empty == <<>>

\* request inputs the model draws from
Images == {Nginx112, Redis5}
Namespaces == {Demo, Prod}
Names == {RemoveNonAlphanumericChars(i) : i \in Images}

----------------------------------------------------------------------------
(* Requests *)

Creators == {"c1", "c2"}
Updaters == {"u1", "u2"}
Listers == {"l1"}
Deleters == {"d1"}
Requests == Creators \cup Updaters \cup Listers \cup Deleters

NoObj == [none |-> TRUE]
NoResp == [status |-> 0, body |-> <<>>]
NoInput == [image |-> Empty, namespace |-> Empty, name |-> Empty]
NoHist == [gets |-> 0, updates |-> 0, conflicts |-> 0, creates |-> 0,
           nsErr |-> "none", err |-> "none", getErr |-> "none",
           updErr |-> "none", submitted |-> NoObj,
           submittedTo |-> Empty, fetched |-> NoObj, commits |-> 0,
           over |-> NoObj, written |-> NoObj, listed |-> <<>>,
           deletedSeen |-> {}, createdSeen |-> {}, changedSeen |-> {},
           nsSeen |-> FALSE, existedSeen |-> FALSE]

----------------------------------------------------------------------------
(* The API server (the Resource Client's remote side).  The source reaches
   it only through client-go calls; what is modelled here is what those calls
   return: AlreadyExists / NotFound / Conflict / Invalid as Kubernetes
   defines them, one cluster-wide increasing resourceVersion, and foreground
   deletion in two steps (marked on Delete, removed once dependents are gone).
   Any call can also fail for a reason of its own (`fail`: transport, auth). *)

Key(d) == <<d.namespace, d.name>>

Lookup(ns, name) == {d \in store : d.namespace = ns /\ d.name = name}

\* metadata.name of a Deployment is a DNS-1123 subdomain
ValidName(n) ==
    /\ n # <<>>
    /\ \A i \in 1..Len(n) : n[i] \in Lower \cup Digit \cup {"-", "."}
    /\ n[1] \in Lower \cup Digit
    /\ n[Len(n)] \in Lower \cup Digit

\* Namespaces().Create: the error the call returns
NamespaceCreateError(ns, fail) ==
    IF fail THEN "Failure"
    ELSE IF ns \in namespaces THEN "AlreadyExists"
    ELSE "ok"

\* Deployments(ns).Create(obj): the error the call returns
DeploymentCreateError(ns, obj, fail) ==
    IF fail THEN "Failure"
    ELSE IF obj.namespace # Empty /\ obj.namespace # ns THEN "BadRequest"
    ELSE IF ns \notin namespaces THEN "NotFound"
    ELSE IF ~ValidName(obj.name) \/ obj.selector # obj.labels THEN "Invalid"
    ELSE IF Lookup(ns, obj.name) # {} THEN "AlreadyExists"
    ELSE "ok"

\* the resource the API server stores for an accepted Create
Stored(ns, obj, version) ==
    [name |-> obj.name, namespace |-> ns, replicas |-> obj.replicas,
     selector |-> obj.selector, labels |-> obj.labels, image |-> obj.image,
     rv |-> version, note |-> 0, terminating |-> FALSE]

\* Deployments(ns).Update(obj): the error the call returns.  A write that
\* presents a resourceVersion other than the stored one is a Conflict; an
\* empty resourceVersion is an unconditional update.
DeploymentUpdateError(ns, obj, fail) ==
    IF fail THEN "Failure"
    ELSE IF Lookup(ns, obj.name) = {} THEN "NotFound"
    ELSE IF obj.rv # 0 /\ \A d \in Lookup(ns, obj.name) : d.rv # obj.rv
         THEN "Conflict"
    ELSE "ok"

\* Deployments(ns).Delete(name, Foreground): the error the call returns
DeploymentDeleteError(ns, name, fail) ==
    IF fail THEN "Failure"
    ELSE IF Lookup(ns, name) = {} THEN "NotFound"
    ELSE "ok"

\* every order in which the items of a set can be returned
Orders(S) ==
    {q \in [1..Cardinality(S) -> S] : \A i, j \in 1..Cardinality(S) :
                                         i # j => q[i] # q[j]}

\* another client of the API server (a controller writing status, another
\* caller) updates a deployment: the resource gets a new resourceVersion
ExternalWrite ==
    /\ rev < MaxRev
    /\ extWrites < MaxExtWrites
    /\ \E d \in store :
          store' = (store \ {d}) \cup
                   {[d EXCEPT !.rv = rev + 1, !.note = 1 - d.note]}
    /\ rev' = rev + 1
    /\ extWrites' = extWrites + 1
    /\ UNCHANGED <<namespaces, deployment, pc, in, result, steps, resp, hist,
                   deletedOK>>

\* the garbage collector has removed the dependents of a deployment that is
\* being deleted in the foreground, and the API server removes the deployment
FinishForegroundDeletion ==
    /\ \E d \in store :
          /\ d.terminating
          /\ store' = store \ {d}
    /\ UNCHANGED <<namespaces, rev, deployment, pc, in, result, steps, resp,
                   hist, extWrites, deletedOK>>

----------------------------------------------------------------------------
(* CreateDeploymentStruct and CreateDeployment *)

\* the template main() builds once, before the web service starts
CreateDeploymentStructThree ==
    [name |-> DemoDeployment, namespace |-> Empty, replicas |-> 3,
     selector |-> Demo, labels |-> Demo, image |-> Nginx112]
CreateDeploymentStruct ==
    [name |-> DemoDeployment, namespace |-> Empty, replicas |-> 2,
     selector |-> Demo, labels |-> Demo, image |-> Nginx112]

Text(m) == [msg |-> m, name |-> Empty, n |-> 0]

\* lines 124-128: read the entity, derive appName, write it to the shared
\* template's name
CreateDeployment128(r) ==
    /\ pc[r] = "idle"
    /\ \E image \in Images, namespace \in Namespaces :
          /\ in' = [in EXCEPT ![r] =
                      [image |-> image, namespace |-> namespace,
                       name |-> RemoveNonAlphanumericChars(image)]]
          /\ deployment' = [deployment EXCEPT
                              !.name = RemoveNonAlphanumericChars(image)]
    /\ pc' = [pc EXCEPT ![r] = "L129"]
    /\ UNCHANGED <<namespaces, store, rev, result, steps, resp, hist,
                   extWrites, deletedOK>>

CreateDeployment129(r) ==
    /\ pc[r] = "L129"
    /\ deployment' = [deployment EXCEPT !.selector = in[r].name]
    /\ pc' = [pc EXCEPT ![r] = "L130"]
    /\ UNCHANGED <<namespaces, store, rev, in, result, steps, resp, hist,
                   extWrites, deletedOK>>

\* a handler that sets the template's namespace only while it is empty
CreateDeployment130Once(r) ==
    /\ pc[r] = "L130"
    /\ deployment' = IF deployment.namespace = Empty
                      THEN [deployment EXCEPT !.namespace = in[r].namespace]
                      ELSE deployment
    /\ pc' = [pc EXCEPT ![r] = "L131"]
    /\ UNCHANGED <<namespaces, store, rev, in, result, steps, resp, hist,
                   extWrites, deletedOK>>

CreateDeployment130(r) ==
    /\ pc[r] = "L130"
    /\ deployment' = [deployment EXCEPT !.namespace = in[r].namespace]
    /\ pc' = [pc EXCEPT ![r] = "L131"]
    /\ UNCHANGED <<namespaces, store, rev, in, result, steps, resp, hist,
                   extWrites, deletedOK>>

CreateDeployment131(r) ==
    /\ pc[r] = "L131"
    /\ deployment' = [deployment EXCEPT !.labels = in[r].name]
    /\ pc' = [pc EXCEPT ![r] = "L132"]
    /\ UNCHANGED <<namespaces, store, rev, in, result, steps, resp, hist,
                   extWrites, deletedOK>>

CreateDeployment132(r) ==
    /\ pc[r] = "L132"
    /\ deployment' = [deployment EXCEPT !.image = in[r].image]
    /\ pc' = [pc EXCEPT ![r] = "L134"]
    /\ UNCHANGED <<namespaces, store, rev, in, result, steps, resp, hist,
                   extWrites, deletedOK>>

\* line 134-136: the error CreateNamespace returned is assigned and never
\* read; the handler goes on to the deployment create
AfterCreateNamespacePanics(err) == IF err = "ok" THEN "L137" ELSE "panicked"
AfterCreateNamespace(err) == "L137"

\* lines 134, 145-149: CreateNamespace(deploy)
CreateNamespace(r) ==
    /\ pc[r] = "L134"
    /\ \E fail \in BOOLEAN :
          LET err == NamespaceCreateError(in[r].namespace, fail) IN
          /\ namespaces' = IF err = "ok"
                            THEN namespaces \cup {in[r].namespace}
                            ELSE namespaces
          /\ hist' = [hist EXCEPT ![r].nsErr = err]
          /\ pc' = [pc EXCEPT ![r] = AfterCreateNamespace(err)]
    /\ UNCHANGED <<store, rev, deployment, in, result, steps, resp,
                   extWrites, deletedOK>>

\* lines 141-142: the response of a create that succeeded
CreatedResponse(name) ==
    [status |-> 200,
     body |-> <<[msg |-> "Created deployment ", name |-> name, n |-> 0]>>]

\* lines 136-142: Deployments(deploy.Namespace).Create(deployment); a
\* returned error panics, otherwise the created name is written
CreateDeployment137(r) ==
    /\ pc[r] = "L137"
    /\ \E fail \in BOOLEAN :
          LET err == DeploymentCreateError(in[r].namespace, deployment, fail)
              ok == err = "ok" /\ rev < MaxRev
              new == Stored(in[r].namespace, deployment, rev + 1)
          IN
          /\ err = "ok" => rev < MaxRev
          /\ store' = IF ok THEN store \cup {new} ELSE store
          /\ rev' = IF ok THEN rev + 1 ELSE rev
          /\ deletedOK' = IF ok THEN deletedOK \ {Key(new)} ELSE deletedOK
          /\ hist' = [hist EXCEPT ![r].creates = @ + 1,
                                  ![r].err = err,
                                  ![r].submitted = deployment,
                                  ![r].nsSeen = in[r].namespace \in namespaces,
                                  ![r].existedSeen =
                                      Lookup(in[r].namespace, in[r].name) # {},
                                  ![r].submittedTo = in[r].namespace]
          /\ pc' = [pc EXCEPT ![r] = IF ok THEN "done" ELSE "panicked"]
          /\ resp' = [resp EXCEPT ![r] =
                        IF ok THEN CreatedResponse(new.name) ELSE @]
    /\ UNCHANGED <<namespaces, deployment, in, result, steps, extWrites>>

----------------------------------------------------------------------------
(* UpdateDeployment *)

\* retry.DefaultRetry.Steps: the attempts RetryOnConflict makes
DefaultRetrySteps == 5

\* lines 152-155: read the path parameters and enter RetryOnConflict
UpdateDeployment152(r) ==
    /\ pc[r] = "idle"
    /\ \E namespace \in Namespaces, name \in Names :
          in' = [in EXCEPT ![r] = [image |-> Empty, namespace |-> namespace,
                                  name |-> name]]
    /\ pc' = [pc EXCEPT ![r] = "L157"]
    /\ UNCHANGED <<namespaces, store, rev, deployment, result, steps, resp,
                   hist, extWrites, deletedOK>>

\* lines 158-160: a Get that fails panics out of the closure and out of
\* RetryOnConflict; otherwise the closure goes on to mutate and submit
AfterGetRetries(getErr) == IF getErr = "ok" THEN "L164" ELSE "L157"
AfterGet(getErr) == IF getErr = "ok" THEN "L164" ELSE "panicked"

\* lines 162-163: the mutation, applied to the object Get returned (its
\* resourceVersion and every other field stay as fetched)
MutateResetsNote(obj) ==
    [obj EXCEPT !.replicas = 1, !.image = Nginx113, !.note = 0]
MutateFresh(obj) == [obj EXCEPT !.replicas = 1, !.image = Nginx113, !.rv = 0]
Mutate(obj) == [obj EXCEPT !.replicas = 1, !.image = Nginx113]

\* lines 156-163: Deployments(namespace).Get(deploymentName), then the
\* mutation of the fetched object
UpdateDeployment157(r) ==
    /\ pc[r] = "L157"
    /\ \E fail \in BOOLEAN :
          LET found == Lookup(in[r].namespace, in[r].name)
              getErr == IF fail THEN "Failure"
                        ELSE IF found = {} THEN "NotFound" ELSE "ok"
          IN
          /\ \E d \in (IF getErr = "ok" THEN found ELSE {NoObj}) :
                /\ result' = [result EXCEPT ![r] =
                                IF getErr = "ok" THEN Mutate(d) ELSE NoObj]
                /\ hist' = [hist EXCEPT ![r].gets = @ + 1,
                                        ![r].getErr = getErr,
                                        ![r].fetched = d]
          /\ pc' = [pc EXCEPT ![r] = AfterGet(getErr)]
    /\ UNCHANGED <<namespaces, store, rev, deployment, in, steps, resp,
                   extWrites, deletedOK>>

\* lines 155, 165-169: what RetryOnConflict does with the error the closure
\* returned on its attempt-th call: nil ends it, a Conflict starts the next
\* attempt while attempts remain, any other error (and a Conflict on the last
\* attempt) is returned and line 168 panics
AfterUpdateNoRefetch(updateErr, attempt) ==
    IF updateErr = "ok" THEN "done"
    ELSE IF updateErr = "Conflict" /\ attempt < DefaultRetrySteps THEN "L164"
    ELSE "panicked"
AfterUpdateUnbounded(updateErr, attempt) ==
    IF updateErr = "ok" THEN "done"
    ELSE IF updateErr = "Conflict" THEN "L157"
    ELSE "panicked"
AfterUpdateRetriesAll(updateErr, attempt) ==
    IF updateErr = "ok" THEN "done"
    ELSE IF attempt < DefaultRetrySteps THEN "L157"
    ELSE "panicked"
AfterUpdateSwallows(updateErr, attempt) ==
    IF updateErr = "ok" THEN "done"
    ELSE IF updateErr = "Conflict" /\ attempt < DefaultRetrySteps THEN "L157"
    ELSE IF updateErr = "Conflict" THEN "panicked"
    ELSE "done"
AfterUpdate(updateErr, attempt) ==
    IF updateErr = "ok" THEN "done"
    ELSE IF updateErr = "Conflict" /\ attempt < DefaultRetrySteps THEN "L157"
    ELSE "panicked"

\* lines 170-171
UpdatedResponse == [status |-> 200, body |-> <<Text("Updated deployment...")>>]

\* lines 164-171: Deployments(namespace).Update(result), the decision of
\* RetryOnConflict, and the response when it returned nil
UpdateDeployment164(r) ==
    /\ pc[r] = "L164"
    /\ \E fail \in BOOLEAN :
          LET updateErr == DeploymentUpdateError(in[r].namespace, result[r], fail)
              ok == updateErr = "ok"
              old == CHOOSE d \in Lookup(in[r].namespace, result[r].name) : TRUE
              new == [result[r] EXCEPT !.rv = rev + 1]
              next == AfterUpdate(updateErr, steps[r] + 1)
          IN
          /\ ok => rev < MaxRev
          /\ store' = IF ok THEN (store \ {old}) \cup {new} ELSE store
          /\ rev' = IF ok THEN rev + 1 ELSE rev
          /\ steps' = [steps EXCEPT ![r] = @ + 1]
          /\ hist' = [hist EXCEPT
                        ![r].updates = @ + 1,
                        ![r].updErr = updateErr,
                        ![r].conflicts = IF updateErr = "Conflict"
                                         THEN @ + 1 ELSE @,
                        ![r].commits = IF ok THEN @ + 1 ELSE @,
                        ![r].over = IF ok THEN old ELSE @,
                        ![r].written = IF ok THEN new ELSE @]
          /\ pc' = [pc EXCEPT ![r] = next]
          /\ resp' = [resp EXCEPT ![r] =
                        IF next = "done" THEN UpdatedResponse ELSE @]
    /\ UNCHANGED <<namespaces, deployment, in, result, extWrites, deletedOK>>

----------------------------------------------------------------------------
(* ListDeployment *)

\* lines 182-190: one line "name replicas" per item, in the order of the list
ListBodyReversed(items) ==
    [i \in 1..Len(items) |->
        [msg |-> "line", name |-> items[Len(items) + 1 - i].name,
         n |-> items[Len(items) + 1 - i].replicas]]
ListBody(items) ==
    [i \in 1..Len(items) |->
        [msg |-> "line", name |-> items[i].name, n |-> items[i].replicas]]

\* lines 175-190: Deployments(namespace).List; an error panics, otherwise
\* the lines are written
ListDeployment(r) ==
    /\ pc[r] = "idle"
    /\ \E namespace \in Namespaces, fail \in BOOLEAN :
          /\ in' = [in EXCEPT ![r] = [image |-> Empty, namespace |-> namespace,
                                      name |-> Empty]]
          /\ IF fail
             THEN /\ pc' = [pc EXCEPT ![r] = "panicked"]
                  /\ hist' = [hist EXCEPT ![r].err = "Failure"]
                  /\ resp' = resp
             ELSE \E items \in Orders({d \in store : d.namespace = namespace}) :
                    /\ pc' = [pc EXCEPT ![r] = "done"]
                    /\ hist' = [hist EXCEPT
                          ![r].err = "ok",
                          ![r].listed = items,
                          ![r].deletedSeen =
                              {k[2] : k \in {x \in deletedOK : x[1] = namespace}},
                          ![r].createdSeen =
                              {in[q].name : q \in
                                  {c \in Creators : /\ pc[c] = "done"
                                                    /\ in[c].namespace = namespace}},
                          ![r].changedSeen =
                              {in[q].name : q \in
                                  {u \in Updaters \cup Deleters :
                                      /\ in[u].namespace = namespace
                                      /\ \/ hist[u].commits > 0
                                         \/ u \in Deleters /\ hist[u].err = "ok"}}]
                    /\ resp' = [resp EXCEPT ![r] =
                                  [status |-> 200, body |-> ListBody(items)]]
    /\ UNCHANGED <<namespaces, store, rev, deployment, result, steps,
                   extWrites, deletedOK>>

----------------------------------------------------------------------------
(* DeleteDeployment *)

\* lines 199-206: an error is written with status 500 and the handler goes
\* on to line 206, which writes the success text in either case
DeleteResponse(err) ==
    IF err = "ok"
    THEN [status |-> 200, body |-> <<Text("Deleted deployment.")>>]
    ELSE [status |-> 500, body |-> <<Text(err), Text("Deleted deployment.")>>]

\* lines 194-195: the deployment the delete is issued for
DeleteTargetOther(namespace, name) ==
    <<namespace, CHOOSE n \in Names : n # name>>
DeleteTarget(namespace, name) == <<namespace, name>>

\* a delete handler that also removes the namespace
DeleteDeploymentAndNamespace(r) ==
    /\ pc[r] = "idle"
    /\ \E namespace \in Namespaces, name \in Names, fail \in BOOLEAN :
          LET err == DeploymentDeleteError(namespace, name, fail)
              old == CHOOSE d \in Lookup(namespace, name) : TRUE
              marks == err = "ok" /\ ~old.terminating
          IN
          /\ marks => rev < MaxRev
          /\ in' = [in EXCEPT ![r] = [image |-> Empty, namespace |-> namespace,
                                      name |-> name]]
          /\ store' = IF marks
                       THEN (store \ {old}) \cup
                            {[old EXCEPT !.terminating = TRUE, !.rv = rev + 1]}
                       ELSE store
          /\ namespaces' = IF err = "ok" THEN namespaces \ {namespace}
                            ELSE namespaces
          /\ rev' = IF marks THEN rev + 1 ELSE rev
          /\ deletedOK' = IF err = "ok"
                           THEN deletedOK \cup {<<namespace, name>>}
                           ELSE deletedOK
          /\ hist' = [hist EXCEPT ![r].err = err]
          /\ resp' = [resp EXCEPT ![r] =
                        [status |-> 200, body |-> <<Text("Deleted deployment.")>>]]
          /\ pc' = [pc EXCEPT ![r] = "done"]
    /\ UNCHANGED <<deployment, result, steps, extWrites>>

\* lines 194-206: Deployments(namespace).Delete(deploymentName) with
\* foreground propagation: the API server marks the deployment as being
\* deleted and returns; the deployment is removed once its dependents are
DeleteDeployment(r) ==
    /\ pc[r] = "idle"
    /\ \E namespace \in Namespaces, name \in Names, fail \in BOOLEAN :
          LET target == DeleteTarget(namespace, name)
              err == DeploymentDeleteError(target[1], target[2], fail)
              old == CHOOSE d \in Lookup(target[1], target[2]) : TRUE
              marks == err = "ok" /\ ~old.terminating
          IN
          /\ marks => rev < MaxRev
          /\ in' = [in EXCEPT ![r] = [image |-> Empty, namespace |-> namespace,
                                      name |-> name]]
          /\ store' = IF marks
                       THEN (store \ {old}) \cup
                            {[old EXCEPT !.terminating = TRUE, !.rv = rev + 1]}
                       ELSE store
          /\ rev' = IF marks THEN rev + 1 ELSE rev
          /\ deletedOK' = IF err = "ok"
                           THEN deletedOK \cup {<<namespace, name>>}
                           ELSE deletedOK
          /\ hist' = [hist EXCEPT ![r].err = err]
          /\ resp' = [resp EXCEPT ![r] = DeleteResponse(err)]
          /\ pc' = [pc EXCEPT ![r] = "done"]
    /\ UNCHANGED <<namespaces, deployment, result, steps, extWrites>>

----------------------------------------------------------------------------
(* The system *)

Init ==
    /\ namespaces = {}
    /\ store = {}
    /\ rev = 0
    /\ deployment = CreateDeploymentStruct
    /\ pc = [r \in Requests |-> "idle"]
    /\ in = [r \in Requests |-> NoInput]
    /\ result = [r \in Requests |-> NoObj]
    /\ steps = [r \in Requests |-> 0]
    /\ resp = [r \in Requests |-> NoResp]
    /\ hist = [r \in Requests |-> NoHist]
    /\ extWrites = 0
    /\ deletedOK = {}

Next ==
    \/ \E r \in Creators : CreateDeployment128(r)
    \/ \E r \in Creators : CreateDeployment129(r)
    \/ \E r \in Creators : CreateDeployment130(r)
    \/ \E r \in Creators : CreateDeployment131(r)
    \/ \E r \in Creators : CreateDeployment132(r)
    \/ \E r \in Creators : CreateNamespace(r)
    \/ \E r \in Creators : CreateDeployment137(r)
    \/ \E r \in Updaters : UpdateDeployment152(r)
    \/ \E r \in Updaters : UpdateDeployment157(r)
    \/ \E r \in Updaters : UpdateDeployment164(r)
    \/ \E r \in Listers : ListDeployment(r)
    \/ \E r \in Deleters : DeleteDeployment(r)
    \/ ExternalWrite
    \/ FinishForegroundDeletion

\* the whole service: every handler, any overlap
Spec == Init /\ [][Next]_vars

----------------------------------------------------------------------------
(* Scenarios: the same actions, started from a state the system reaches and
   restricted to the requests a group of properties is about *)

\* the store after one create request {image: "nginx:1.12", namespace: "demo"}
\* has been served
InitCreated ==
    /\ namespaces = {Demo}
    /\ store = {Stored(Demo, [CreateDeploymentStruct EXCEPT
                                !.name = RemoveNonAlphanumericChars(Nginx112),
                                !.selector = RemoveNonAlphanumericChars(Nginx112),
                                !.labels = RemoveNonAlphanumericChars(Nginx112),
                                !.namespace = Demo], 1)}
    /\ rev = 1
    /\ deployment = [CreateDeploymentStruct EXCEPT
                       !.name = RemoveNonAlphanumericChars(Nginx112),
                       !.selector = RemoveNonAlphanumericChars(Nginx112),
                       !.labels = RemoveNonAlphanumericChars(Nginx112),
                       !.namespace = Demo]
    /\ pc = [r \in Requests |-> "idle"]
    /\ in = [r \in Requests |-> NoInput]
    /\ result = [r \in Requests |-> NoObj]
    /\ steps = [r \in Requests |-> 0]
    /\ resp = [r \in Requests |-> NoResp]
    /\ hist = [r \in Requests |-> NoHist]
    /\ extWrites = 0
    /\ deletedOK = {}

\* concurrent updates, a delete and other writers of the same store
NextUpdate ==
    \/ \E r \in Updaters : UpdateDeployment152(r)
    \/ \E r \in Updaters : UpdateDeployment157(r)
    \/ \E r \in Updaters : UpdateDeployment164(r)
    \/ \E r \in Deleters : DeleteDeployment(r)
    \/ ExternalWrite
    \/ FinishForegroundDeletion

SpecUpdate == InitCreated /\ [][NextUpdate]_vars

\* concurrent create requests
NextCreate ==
    \/ \E r \in Creators : CreateDeployment128(r)
    \/ \E r \in Creators : CreateDeployment129(r)
    \/ \E r \in Creators : CreateDeployment130(r)
    \/ \E r \in Creators : CreateDeployment131(r)
    \/ \E r \in Creators : CreateDeployment132(r)
    \/ \E r \in Creators : CreateNamespace(r)
    \/ \E r \in Creators : CreateDeployment137(r)

SpecCreate == Init /\ [][NextCreate]_vars

\* one create, one delete and one list request, in any order and overlap
NextLifecycle ==
    \/ CreateDeployment128("c1")
    \/ CreateDeployment129("c1")
    \/ CreateDeployment130("c1")
    \/ CreateDeployment131("c1")
    \/ CreateDeployment132("c1")
    \/ CreateNamespace("c1")
    \/ CreateDeployment137("c1")
    \/ \E r \in Listers : ListDeployment(r)
    \/ \E r \in Deleters : DeleteDeployment(r)
    \/ ExternalWrite
    \/ FinishForegroundDeletion

SpecLifecycle == InitCreated /\ [][NextLifecycle]_vars

\* concurrent create requests on a store that already holds nginx112 in demo
SpecCreateExisting == InitCreated /\ [][NextCreate]_vars

\* a create request that arrives when no other create request is being
\* handled (the requests of one caller, sent one after another)
CreateDeploymentInTurn(r) ==
    /\ \A q \in Creators \ {r} : pc[q] \in {"idle", "done", "panicked"}
    /\ CreateDeployment128(r)

\* the four handlers on an empty store: one create, one update, one list and
\* one delete request, in any order and overlap
NextService ==
    \/ CreateDeployment128("c1")
    \/ CreateDeployment129("c1")
    \/ CreateDeployment130("c1")
    \/ CreateDeployment131("c1")
    \/ CreateDeployment132("c1")
    \/ CreateNamespace("c1")
    \/ CreateDeployment137("c1")
    \/ UpdateDeployment152("u1")
    \/ UpdateDeployment157("u1")
    \/ UpdateDeployment164("u1")
    \/ \E r \in Listers : ListDeployment(r)
    \/ \E r \in Deleters : DeleteDeployment(r)
    \/ FinishForegroundDeletion

SpecService == Init /\ [][NextService]_vars

\* create requests one after another, overlapped in any way by an update, a
\* list and a delete
NextInTurn ==
    \/ \E r \in Creators : CreateDeploymentInTurn(r)
    \/ \E r \in Creators : CreateDeployment129(r)
    \/ \E r \in Creators : CreateDeployment130(r)
    \/ \E r \in Creators : CreateDeployment131(r)
    \/ \E r \in Creators : CreateDeployment132(r)
    \/ \E r \in Creators : CreateNamespace(r)
    \/ \E r \in Creators : CreateDeployment137(r)
    \/ UpdateDeployment152("u1")
    \/ UpdateDeployment157("u1")
    \/ UpdateDeployment164("u1")
    \/ \E r \in Listers : ListDeployment(r)
    \/ \E r \in Deleters : DeleteDeployment(r)
    \/ FinishForegroundDeletion

SpecInTurn == Init /\ [][NextInTurn]_vars

\* the characters the derivation is tried on: letters of both cases, a
\* digit, and separators that occur in image references
Alphabet == {"a", "Z", "7", ":", ".", "/"}
ImageStrings == UNION {[1..k -> Alphabet] : k \in 0..MaxLen}

\* a create request has been posted with an arbitrary image string
InitDerive ==
    /\ namespaces = {}
    /\ store = {}
    /\ rev = 0
    /\ deployment = CreateDeploymentStruct
    /\ pc = [r \in Requests |-> IF r = "c1" THEN "posted" ELSE "idle"]
    /\ \E s \in ImageStrings :
          in = [r \in Requests |->
                  IF r = "c1" THEN [image |-> s, namespace |-> Demo,
                                    name |-> Empty]
                  ELSE NoInput]
    /\ result = [r \in Requests |-> NoObj]
    /\ steps = [r \in Requests |-> 0]
    /\ resp = [r \in Requests |-> NoResp]
    /\ hist = [r \in Requests |-> NoHist]
    /\ extWrites = 0
    /\ deletedOK = {}

\* lines 124-127: appName := RemoveNonAlphanumericChars(deploy.Image)
DeriveAppName(r) ==
    /\ pc[r] = "posted"
    /\ in' = [in EXCEPT ![r].name = RemoveNonAlphanumericChars(in[r].image)]
    /\ pc' = [pc EXCEPT ![r] = "L128"]
    /\ UNCHANGED <<namespaces, store, rev, deployment, result, steps, resp,
                   hist, extWrites, deletedOK>>

\* a second create request is posted whose image is the name the first one
\* derived
PostDerivedName ==
    /\ pc["c1"] = "L128"
    /\ pc["c2"] = "idle"
    /\ in' = [in EXCEPT !["c2"] = [image |-> in["c1"].name,
                                   namespace |-> Demo, name |-> Empty]]
    /\ pc' = [pc EXCEPT !["c2"] = "posted"]
    /\ UNCHANGED <<namespaces, store, rev, deployment, result, steps, resp,
                   hist, extWrites, deletedOK>>

NextDerive ==
    \/ \E r \in Creators : DeriveAppName(r)
    \/ PostDerivedName

SpecDerive == InitDerive /\ [][NextDerive]_vars

----------------------------------------------------------------------------
(* Properties of UpdateDeployment, checked under SpecUpdate *)

\* C1: every Update the API server accepts from an UpdateDeployment request
\* replaces exactly the resource state that the Get of the same attempt
\* returned: no other write to that deployment lies between the two.
C1_NoStaleCommit ==
    \A r \in Updaters :
        hist[r].commits > 0 => hist[r].over = hist[r].fetched

\* a request that lost a race to another writer, fetched again and committed
C1_Witness ==
    \E r \in Updaters :
        /\ hist[r].commits = 1
        /\ hist[r].conflicts >= 1
        /\ extWrites >= 1
        /\ hist[r].over = hist[r].fetched

\* C2: a request whose first k Updates are rejected with Conflict and whose
\* (k+1)-th is accepted, k < 5, succeeds after exactly k+1 Gets and k+1
\* Updates, and every Update follows a Get of its own.
C2_RetryConvergence ==
    \A r \in Updaters :
        /\ hist[r].commits = 1 <=> pc[r] = "done"
        /\ pc[r] = "done" =>
              /\ hist[r].conflicts < DefaultRetrySteps
              /\ hist[r].gets = hist[r].conflicts + 1
              /\ hist[r].updates = hist[r].conflicts + 1
              /\ resp[r] = UpdatedResponse
        /\ pc[r] = "L164" => hist[r].gets = hist[r].updates + 1
        /\ pc[r] = "L157" => hist[r].gets = hist[r].updates

\* the largest k: four rejected Updates, the fifth accepted
C2_Witness ==
    \E r \in Updaters :
        /\ pc[r] = "done"
        /\ hist[r].conflicts = DefaultRetrySteps - 1
        /\ hist[r].gets = DefaultRetrySteps

\* C3: a request whose every Update is rejected with Conflict ends in failure
\* after exactly 5 Gets and 5 Updates, issues no further call and writes no
\* success response.
C3_RetryExhaustion ==
    \A r \in Updaters :
        /\ hist[r].gets <= DefaultRetrySteps
        /\ hist[r].updates <= DefaultRetrySteps
        /\ hist[r].conflicts = DefaultRetrySteps =>
              /\ pc[r] = "panicked"
              /\ hist[r].gets = DefaultRetrySteps
              /\ hist[r].updates = DefaultRetrySteps
              /\ hist[r].commits = 0
              /\ resp[r] = NoResp
        /\ (pc[r] = "panicked" /\ hist[r].getErr = "ok"
                                /\ hist[r].updErr = "Conflict") =>
              hist[r].conflicts = DefaultRetrySteps

C3_Witness ==
    \E r \in Updaters :
        /\ pc[r] = "panicked"
        /\ hist[r].conflicts = DefaultRetrySteps
        /\ hist[r].updates = DefaultRetrySteps

\* C4: when the Get of any attempt fails, the request ends at once: the
\* attempt submits no Update, no attempt follows, no success is written.
C4_GetFailureIsFatal ==
    \A r \in Updaters :
        hist[r].getErr \in {"NotFound", "Failure"} =>
            /\ pc[r] = "panicked"
            /\ hist[r].updates = hist[r].gets - 1
            /\ hist[r].updates = hist[r].conflicts
            /\ hist[r].commits = 0
            /\ resp[r] = NoResp

\* a Get that fails on the attempt that follows a Conflict
C4_Witness ==
    \E r \in Updaters :
        /\ hist[r].getErr = "NotFound"
        /\ hist[r].conflicts >= 1
        /\ pc[r] = "panicked"

\* C5: an Update that fails with anything but Conflict ends the request at
\* once, with no further Get or Update and no success response; only a
\* Conflict leads back to the Get.
C5_OnlyConflictRetries ==
    \A r \in Updaters :
        /\ hist[r].updErr \in {"NotFound", "Failure"} =>
              /\ pc[r] = "panicked"
              /\ hist[r].gets = hist[r].updates
              /\ hist[r].commits = 0
              /\ resp[r] = NoResp
        /\ (pc[r] \in {"L157", "L164"} /\ hist[r].updates > 0) =>
              /\ hist[r].updErr = "Conflict"
              /\ hist[r].conflicts = hist[r].updates

\* an Update that finds the deployment gone, after an earlier Conflict
C5_Witness ==
    \E r \in Updaters :
        /\ hist[r].updErr = "NotFound"
        /\ hist[r].conflicts >= 1
        /\ pc[r] = "panicked"

----------------------------------------------------------------------------
(* Properties of CreateDeployment, checked under SpecCreate *)

\* C6: every deployment CreateDeployment submits has a label selector equal
\* to its pod template's labels, both {app: name} for the submitted name.
C6_SelectorEqualsLabels ==
    \A r \in Creators :
        hist[r].creates > 0 =>
            /\ hist[r].submitted.selector = hist[r].submitted.labels
            /\ hist[r].submitted.selector = hist[r].submitted.name

\* C7: the deployment a create request submits carries that request's derived
\* name, image and namespace and 2 replicas, and goes to that namespace.
C7_SubmitsOwnInput ==
    \A r \in Creators :
        hist[r].creates > 0 =>
            /\ hist[r].submitted.name = RemoveNonAlphanumericChars(in[r].image)
            /\ hist[r].submitted.image = in[r].image
            /\ hist[r].submitted.namespace = in[r].namespace
            /\ hist[r].submitted.replicas = 2
            /\ hist[r].submittedTo = in[r].namespace

\* C8: when the namespace create fails with AlreadyExists, the deployment
\* create is still issued, exactly once, and the request succeeds exactly
\* when that call succeeds.
C8_NamespaceOverlapTolerated ==
    \A r \in Creators :
        hist[r].nsErr = "AlreadyExists" =>
            /\ pc[r] \in {"L137", "done", "panicked"}
            /\ pc[r] = "L137" => hist[r].creates = 0
            /\ pc[r] \in {"done", "panicked"} => hist[r].creates = 1
            /\ pc[r] = "done" <=> hist[r].err = "ok"
            /\ pc[r] = "done" =>
                  resp[r] = CreatedResponse(hist[r].submitted.name)
            /\ pc[r] = "panicked" => resp[r] = NoResp

C8_Witness ==
    \E r \in Creators :
        /\ hist[r].nsErr = "AlreadyExists"
        /\ pc[r] = "done"
        /\ hist[r].creates = 1
        /\ in[r].namespace \in namespaces

----------------------------------------------------------------------------
(* Properties of DeleteDeployment and ListDeployment, checked under
   SpecLifecycle *)

\* C9: a delete request answers with exactly one of: the success body alone
\* when the Delete call succeeded, or status 500 with the error body alone
\* when it failed.
C9_DeleteOneOutcome ==
    \A r \in Deleters :
        pc[r] = "done" =>
            \/ /\ hist[r].err = "ok"
               /\ resp[r] = [status |-> 200,
                             body |-> <<Text("Deleted deployment.")>>]
            \/ /\ hist[r].err # "ok"
               /\ resp[r] = [status |-> 500, body |-> <<Text(hist[r].err)>>]

\* C10 as stated: once a Delete of an existing deployment has returned nil,
\* no later list of the namespace has a line for its name (unless created
\* again).
C10_DeletedNeverListed ==
    \A r \in Listers :
        pc[r] = "done" =>
            \A i \in 1..Len(resp[r].body) :
                resp[r].body[i].name \notin hist[r].deletedSeen

\* C10 amended: once a Delete of an existing deployment has returned nil, a
\* later list of the namespace has a line for its name only while the API
\* server has not yet finished the foreground deletion (unless created again).
C10_DeletedListedOnlyWhileTerminating ==
    \A r \in Listers :
        pc[r] = "done" =>
            /\ Len(resp[r].body) = Len(hist[r].listed)
            /\ \A i \in 1..Len(resp[r].body) :
                  resp[r].body[i].name \in hist[r].deletedSeen =>
                      /\ hist[r].listed[i].name = resp[r].body[i].name
                      /\ hist[r].listed[i].terminating

\* a list, served after the delete returned and the removal finished, that
\* has no line for the deleted name
C10_Witness ==
    \E r \in Listers, d \in Deleters :
        /\ pc[r] = "done"
        /\ pc[d] = "done"
        /\ hist[d].err = "ok"
        /\ in[d].namespace = in[r].namespace
        /\ in[d].name \in hist[r].deletedSeen
        /\ \A i \in 1..Len(resp[r].body) : resp[r].body[i].name # in[d].name

----------------------------------------------------------------------------
(* End to end, checked under SpecService *)

\* the name the scenario expects for "nginx:1.12"
NameNginx112 == <<"n","g","i","n","x","1","1","2">>

\* C11: on a store without the deployment, a create request {image:
\* "nginx:1.12", namespace: "demo"} that succeeds has first called the
\* namespace create, has then created nginx112 with 2 replicas and image
\* nginx:1.12 in demo, and answers "Created deployment nginx112"; a later
\* list of demo, with no update or delete of it in between, has the line
\* "nginx112 2".
C11_EndToEnd ==
    /\ (pc["c1"] = "done" /\ in["c1"].image = Nginx112
                          /\ in["c1"].namespace = Demo) =>
          /\ hist["c1"].nsErr # "none"
          /\ Demo \in namespaces
          /\ hist["c1"].creates = 1
          /\ hist["c1"].submittedTo = Demo
          /\ hist["c1"].submitted =
                [name |-> NameNginx112, namespace |-> Demo, replicas |-> 2,
                 selector |-> NameNginx112, labels |-> NameNginx112,
                 image |-> Nginx112]
          /\ resp["c1"] =
                [status |-> 200,
                 body |-> <<[msg |-> "Created deployment ",
                             name |-> NameNginx112, n |-> 0]>>]
    /\ \A r \in Listers :
          (/\ pc[r] = "done"
           /\ in[r].namespace = Demo
           /\ NameNginx112 \in hist[r].createdSeen
           /\ NameNginx112 \notin hist[r].changedSeen) =>
              \E i \in 1..Len(resp[r].body) :
                  resp[r].body[i] =
                      [msg |-> "line", name |-> NameNginx112, n |-> 2]

C11_Witness ==
    \E r \in Listers :
        /\ pc["c1"] = "done"
        /\ in["c1"].image = Nginx112
        /\ in["c1"].namespace = Demo
        /\ pc[r] = "done"
        /\ NameNginx112 \in hist[r].createdSeen
        /\ resp[r].body = <<[msg |-> "line", name |-> NameNginx112, n |-> 2]>>

----------------------------------------------------------------------------
(* Name derivation, checked under SpecDerive *)

IsAlnum(c) ==
    c \in {"a","b","c","d","e","f","g","h","i","j","k","l","m","n","o","p",
           "q","r","s","t","u","v","w","x","y","z","A","B","C","D","E","F",
           "G","H","I","J","K","L","M","N","O","P","Q","R","S","T","U","V",
           "W","X","Y","Z","0","1","2","3","4","5","6","7","8","9"}

\* C12: the derived name has only characters of [a-zA-Z0-9], is exactly the
\* alphanumeric characters of the image in their order, and deriving again
\* from the derived name gives the derived name.
C12_AlnumProjection ==
    /\ \A r \in Creators :
          pc[r] = "L128" =>
              /\ \A i \in 1..Len(in[r].name) : IsAlnum(in[r].name[i])
              /\ in[r].name = SelectSeq(in[r].image, IsAlnum)
    /\ pc["c2"] = "L128" =>
          /\ in["c2"].image = in["c1"].name
          /\ in["c2"].name = in["c1"].name

\* an image with separators before, between and after alphanumerics, derived
\* twice
C12_Witness ==
    /\ pc["c2"] = "L128"
    /\ Len(in["c1"].image) = 3
    /\ ~IsAlnum(in["c1"].image[1])
    /\ IsAlnum(in["c1"].image[2])
    /\ ~IsAlnum(in["c1"].image[3])
    /\ Len(in["c2"].name) = 1

----------------------------------------------------------------------------
(* ListDeployment, checked under SpecLifecycle *)

\* C13: a list response is one line "name replicas" per deployment the List
\* call returned, in the order returned, none left out, repeated or moved;
\* when the List call fails the request aborts with nothing written.
C13_ListLines ==
    \A r \in Listers :
        /\ pc[r] = "done" =>
              /\ hist[r].err = "ok"
              /\ resp[r].status = 200
              /\ Len(resp[r].body) = Len(hist[r].listed)
              /\ \A i \in 1..Len(hist[r].listed) :
                    resp[r].body[i] =
                        [msg |-> "line", name |-> hist[r].listed[i].name,
                         n |-> hist[r].listed[i].replicas]
        /\ hist[r].err = "Failure" =>
              /\ pc[r] = "panicked"
              /\ resp[r] = NoResp

\* two deployments returned in the order that is not the order of creation
C13_Witness ==
    \E r \in Listers :
        /\ pc[r] = "done"
        /\ Len(hist[r].listed) = 2
        /\ hist[r].listed[1].rv > hist[r].listed[2].rv
        /\ resp[r].body[1].name = hist[r].listed[1].name
        /\ resp[r].body[2].name = hist[r].listed[2].name

----------------------------------------------------------------------------
(* Namespace provisioning failures, checked under SpecCreate *)

\* C14 as stated: a create request whose namespace create failed with
\* anything but AlreadyExists ends in failure and does not answer "Created
\* deployment".
C14_ProvisioningFailureSurfaced ==
    \A r \in Creators :
        hist[r].nsErr = "Failure" =>
            /\ pc[r] # "done"
            /\ resp[r] = NoResp

\* C14 amended: after a namespace create that failed with anything but
\* AlreadyExists the deployment create is still issued, once, and alone
\* decides the outcome; the request fails, without a "Created deployment"
\* answer, whenever the namespace does not exist at that call.
C14_ProvisioningFailureViaCreate ==
    \A r \in Creators :
        hist[r].nsErr = "Failure" =>
            /\ pc[r] \in {"L137", "done", "panicked"}
            /\ pc[r] = "L137" => hist[r].creates = 0
            /\ pc[r] \in {"done", "panicked"} => hist[r].creates = 1
            /\ pc[r] = "done" <=> hist[r].err = "ok"
            /\ pc[r] = "panicked" => resp[r] = NoResp
            /\ (hist[r].creates = 1 /\ ~hist[r].nsSeen) =>
                  /\ pc[r] = "panicked"
                  /\ hist[r].err # "ok"
                  /\ resp[r] = NoResp

\* the namespace create failed, the namespace is absent, and the deployment
\* create reports it
C14_Witness ==
    \E r \in Creators :
        /\ hist[r].nsErr = "Failure"
        /\ hist[r].creates = 1
        /\ ~hist[r].nsSeen
        /\ hist[r].err = "NotFound"
        /\ pc[r] = "panicked"

----------------------------------------------------------------------------
(* Frame of an update, checked under SpecUpdate *)

\* C15: what a successful update commits is what the same attempt fetched
\* with the replica count set to 1 and the image set to "nginx:1.13" and
\* nothing else changed (the API server gives it a new resourceVersion), and
\* it replaces exactly the fetched state, so a change another writer
\* committed before the fetch is kept and none committed after it is lost.
C15_UpdateFrame ==
    \A r \in Updaters :
        hist[r].commits > 0 =>
            /\ hist[r].over = hist[r].fetched
            /\ hist[r].written =
                  [hist[r].fetched EXCEPT !.replicas = 1, !.image = Nginx113,
                                          !.rv = hist[r].written.rv]
            /\ hist[r].written.rv > hist[r].fetched.rv
            /\ hist[r].written.note = hist[r].over.note

\* a commit over a state that another writer changed before the fetch
C15_Witness ==
    \E r \in Updaters :
        /\ hist[r].commits = 1
        /\ hist[r].fetched.note = 1
        /\ hist[r].written.note = 1
        /\ hist[r].written.replicas = 1
        /\ hist[r].written.image = Nginx113

----------------------------------------------------------------------------
(* Create-if-absent, checked under SpecCreateExisting *)

\* C16: a create request whose derived (namespace, name) is already in the
\* store when it submits fails without a "Created deployment" answer, the
\* stored resource stays as it was, and of the create requests that derive
\* the same (namespace, name) at most one succeeds.
C16_CreateIfAbsent ==
    /\ \A r \in Creators :
          (hist[r].creates > 0 /\ hist[r].existedSeen) =>
              /\ pc[r] = "panicked"
              /\ resp[r] = NoResp
    /\ \A r, q \in Creators :
          (r # q /\ pc[r] = "done" /\ pc[q] = "done") =>
              <<in[r].namespace, in[r].name>> # <<in[q].namespace, in[q].name>>
    /\ [name |-> NameNginx112, namespace |-> Demo, replicas |-> 2,
        selector |-> NameNginx112, labels |-> NameNginx112,
        image |-> Nginx112, rv |-> 1, note |-> 0, terminating |-> FALSE]
           \in store

----------------------------------------------------------------------------
(* Frame of the handlers, checked under SpecService *)

\* C17: no step removes a namespace; a step that adds one is the namespace
\* create of a create request and adds that request's namespace; no step of
\* an update, list or delete request changes the namespaces; no step of a
\* list request changes a deployment.
C17_NamespaceFrame ==
    [][/\ namespaces \subseteq namespaces'
       /\ namespaces' # namespaces =>
             \E r \in Creators :
                 /\ pc[r] = "L134"
                 /\ pc'[r] = "L137"
                 /\ namespaces' = namespaces \cup {in[r].namespace}
       /\ \A r \in Updaters \cup Listers \cup Deleters :
             pc'[r] # pc[r] => namespaces' = namespaces
       /\ \A r \in Listers : pc'[r] # pc[r] => store' = store]_vars

\* an update, a list and a delete have been served on a store with a
\* namespace and a deployment in it
C17_Witness ==
    /\ hist["u1"].commits = 1
    /\ pc["l1"] = "done"
    /\ Len(hist["l1"].listed) = 1
    /\ pc["d1"] = "done"
    /\ hist["d1"].err = "ok"
    /\ in["d1"].namespace \in namespaces

----------------------------------------------------------------------------
(* Writes and responses of an update request, checked under SpecUpdate *)

\* C18: an update request commits at most one write; it has written
\* "Updated deployment..." exactly when it has committed one; a request that
\* ended fatally has committed none and has written no response.
C18_OneCommitPerUpdate ==
    \A r \in Updaters :
        /\ hist[r].commits <= 1
        /\ resp[r] = UpdatedResponse <=> hist[r].commits = 1
        /\ resp[r] # UpdatedResponse => resp[r] = NoResp
        /\ pc[r] = "panicked" =>
              /\ hist[r].commits = 0
              /\ hist[r].written = NoObj
              /\ resp[r] = NoResp
        /\ hist[r].commits = 1 => pc[r] = "done"

\* one request committed after a conflict while the other, after a conflict
\* of its own, ended on an error of its Update that is not a conflict
C18_Witness ==
    \E r, q \in Updaters :
        /\ r # q
        /\ pc[r] = "done"
        /\ hist[r].commits = 1
        /\ hist[r].conflicts >= 1
        /\ pc[q] = "panicked"
        /\ hist[q].updErr = "Failure"
        /\ hist[q].conflicts >= 1

----------------------------------------------------------------------------
(* Create requests handled one after another, checked under SpecInTurn *)

\* the resource a create request with this image and namespace is to submit
Expected(image, namespace) ==
    [name |-> RemoveNonAlphanumericChars(image), namespace |-> namespace,
     replicas |-> 2, selector |-> RemoveNonAlphanumericChars(image),
     labels |-> RemoveNonAlphanumericChars(image), image |-> image]

\* C19: with create requests handled one after another, among any updates,
\* lists and deletes and after earlier requests that failed, the resource a
\* create request submits is the one its image and namespace determine,
\* whatever the requests before it were.
C19_SubmissionFromInputAlone ==
    \A r \in Creators :
        hist[r].creates > 0 =>
            /\ hist[r].submitted = Expected(in[r].image, in[r].namespace)
            /\ hist[r].submittedTo = in[r].namespace

\* a create request failed, another with a different image and namespace
\* succeeded, and an update, a list and a delete were handled as well
C19_Witness ==
    /\ pc["c1"] = "panicked"
    /\ hist["c1"].creates = 1
    /\ pc["c2"] = "done"
    /\ in["c1"].image # in["c2"].image
    /\ in["c1"].namespace # in["c2"].namespace
    /\ pc["u1"] # "idle"
    /\ pc["l1"] = "done"
    /\ pc["d1"] = "done"

====
